---- MODULE Spec2Model ----
(***************************************************************************)
(* Model of the mare-website record store: the Database methods of         *)
(* src/database/mod.rs, the request handlers of src/app/mod.rs that call   *)
(* them, the Breed and SetState code conversions and the ULID generator    *)
(* wrapper of src/utils/ulid.rs.                                           *)
(*                                                                         *)
(* Three pieces of the repository are not among the sources and are        *)
(* modelled from the specification: the stored procedure set_mare_record   *)
(* (a migration), the column default that gives a new mares row its id (a  *)
(* migration), and the PagingState dispatch of get_paged_records (app/     *)
(* mod.rs calls a two-argument get_paged_records, database/mod.rs holds    *)
(* the one-argument query "id > $1 order by id asc limit 5").              *)
(***************************************************************************)
EXTENDS Integers, Sequences, FiniteSets, TLC

\* Clock readings are 1..MaxTime (CURRENT_TIMESTAMP and SystemTime::now()).
MaxTime == 3

\* The random part of a ULID ranges over 0..MaxRand (80 bits in the crate).
MaxRand == 1

\* At most MaxMares rows are ever inserted into mares in one behaviour of Spec.
MaxMares == 1

\* At most MaxCreates rows are ever inserted into mares in one behaviour of
\* SpecIds.
MaxCreates == 2

\* At most MaxCalls calls of DbUlidGen::generate are started in one behaviour.
MaxCalls == 3

\* Pagination is checked on record sets drawn from MaxPageIds identifiers.
MaxPageIds == 12

\* The record sets of SpecRead hold up to MaxReadIds records: more than one
\* window.
MaxReadIds == 6

\* "asc limit 5"
PageSize == 5

\* form.name.len() > 100
MaxNameLen == 100

\* The request-handling tasks the server runs concurrently.
Tasks == {"t1", "t2"}

VARIABLES
    now,            \* the clock
    mares,          \* table mares: a set of rows
    mares_id_gen,   \* state of the id default of mares.id
    users,          \* table users: a set of rows
    ulid_gen,       \* DbUlidGen: the ulid::Generator's previous ULID
    mutex,          \* DbUlidGen: the owner of the Mutex, or NoTask
    pc,             \* each task's position
    req,            \* each task's call in flight
    resp,           \* the response the latest step returned, if it returned one
    created,        \* history: the ids returned by add, in order
    race,           \* history: two edits in flight with the same token
    glog,           \* history: the ULIDs returned by generate, in order
    tickets,        \* history: how many times the Mutex was taken
    shown,          \* the page most recently rendered
    walk,           \* history: the pages of a First, Next, Next, ... walk
    remembered      \* history: one earlier page call, its arguments and its page

vars == <<now, mares, mares_id_gen, users, ulid_gen, mutex, pc, req, resp,
          created, race, glog, tickets, shown, walk, remembered>>

-----------------------------------------------------------------------------
(* Breed and its i32 code: src/database/breed.rs *)

Breed == {"Earth", "Pegasus", "Unicorn"}

\* A numbering from 1, as of an enum with a variant put in front.
BreedToI32Renumbered(value) ==
    CASE value = "Earth" -> 1
      [] value = "Pegasus" -> 2
      [] value = "Unicorn" -> 3

\* impl From<Breed> for i32
BreedToI32(value) ==
    CASE value = "Earth" -> 0
      [] value = "Pegasus" -> 1
      [] value = "Unicorn" -> 2

\* impl From<i32> for Breed; any other code reaches unreachable!()
BreedFromI32(value) ==
    CASE value = 0 -> "Earth"
      [] value = 1 -> "Pegasus"
      [] value = 2 -> "Unicorn"
      [] OTHER -> "unreachable"

-----------------------------------------------------------------------------
(* SetState and its i32 code: src/database/mod.rs *)

SetState == {"Success", "ModifiedAtConflict", "RecordNotFound"}

\* A decoding with the codes 0 and 1 exchanged.
SetStateFromI32Swapped(value) ==
    CASE value = 0 -> "ModifiedAtConflict"
      [] value = 1 -> "Success"
      [] value = 2 -> "RecordNotFound"
      [] OTHER -> "unreachable"

\* #[repr(i32)] enum SetState and impl From<i32> for SetState
SetStateFromI32(value) ==
    CASE value = 0 -> "Success"
      [] value = 1 -> "ModifiedAtConflict"
      [] value = 2 -> "RecordNotFound"
      [] OTHER -> "unreachable"

-----------------------------------------------------------------------------
(* ULIDs: a timestamp and a random part.  The database keeps the id as     *)
(* text; DbUlid converts between the two (src/utils/ulid.rs).              *)

NilUlid == [ts |-> 0, rand |-> 0]

\* The u128 value of a ULID: the timestamp in the high bits.
UlidValue(u) == u.ts * (MaxRand + 1) + u.rand

\* Ord for Ulid
UlidLess(a, b) == UlidValue(a) < UlidValue(b)

\* Display for DbUlid: the timestamp characters, then the random characters.
UlidToString(u) == <<u.ts, u.rand>>

\* From<String> for DbUlid: panics on text that is no ULID.
UlidFromString(value) ==
    IF Len(value) = 2 /\ value[2] \in 0..MaxRand
    THEN [ts |-> value[1], rand |-> value[2]]
    ELSE [ts |-> -1, rand |-> -1]

\* Text comparison of the engine: lexicographic, a proper prefix is smaller.
RECURSIVE StrLess(_, _)
StrLess(a, b) ==
    IF b = <<>> THEN FALSE
    ELSE IF a = <<>> THEN TRUE
    ELSE IF a[1] # b[1] THEN a[1] < b[1]
    ELSE StrLess(Tail(a), Tail(b))

\* A generator whose exhausted random part is not renewed by a later tick.
GeneratorGenerateNoRenewal(previous, nowms, rnd) ==
    IF previous.rand = MaxRand
    THEN [ok |-> FALSE, ulid |-> previous]
    ELSE IF nowms <= previous.ts
         THEN [ok |-> TRUE, ulid |-> [ts |-> previous.ts, rand |-> previous.rand + 1]]
         ELSE [ok |-> TRUE, ulid |-> [ts |-> nowms, rand |-> rnd]]

\* Ulid::new(), which add_user's comment names: the clock and fresh
\* randomness, whatever was generated before.
GeneratorGenerateUlidNew(previous, nowms, rnd) ==
    [ok |-> TRUE, ulid |-> [ts |-> nowms, rand |-> rnd]]

\* ulid::Generator::generate as DbUlidGen::generate calls it: in the tick of
\* the previous ULID (or an earlier one) the previous ULID is incremented,
\* which fails when its random part is exhausted; in a later tick a new ULID
\* takes the clock and fresh randomness.
GeneratorGenerate(previous, nowms, rnd) ==
    IF nowms <= previous.ts
    THEN IF previous.rand = MaxRand
         THEN [ok |-> FALSE, ulid |-> previous]
         ELSE [ok |-> TRUE, ulid |-> [ts |-> previous.ts, rand |-> previous.rand + 1]]
    ELSE [ok |-> TRUE, ulid |-> [ts |-> nowms, rand |-> rnd]]

-----------------------------------------------------------------------------
(* Rows and records.  A mares row is [id, name, breed, modified_at] with   *)
(* the id as text and the breed as its i32 code; mares.id is the key.      *)
(* Option<T> is a set with at most one element.                            *)

HasRow(tbl, id) == \E r \in tbl : r.id = id

RowOf(tbl, id) == CHOOSE r \in tbl : r.id = id

\* sqlx decoding of a mares row into DatabaseRecord (DbUlid, Breed).
DatabaseRecord(row) ==
    [id |-> UlidFromString(row.id), name |-> row.name,
     breed |-> BreedFromI32(row.breed), modified_at |-> row.modified_at]

\* The smallest row of a non-empty set, by id.
MinRow(S) == CHOOSE r \in S : \A q \in S : q.id = r.id \/ StrLess(r.id, q.id)

\* The largest row of a non-empty set, by id.
MaxRow(S) == CHOOSE r \in S : \A q \in S : q.id = r.id \/ StrLess(q.id, r.id)

\* "order by id asc"
RECURSIVE OrderByIdAsc(_)
OrderByIdAsc(S) ==
    IF S = {} THEN <<>>
    ELSE LET m == MinRow(S) IN <<m>> \o OrderByIdAsc(S \ {m})

\* "limit n"
Limit(rows, n) == SubSeq(rows, 1, IF Len(rows) < n THEN Len(rows) ELSE n)

\* The n largest rows of S.
RECURSIVE LargestRows(_, _)
LargestRows(S, n) ==
    IF S = {} \/ n = 0 THEN {}
    ELSE LET m == MaxRow(S) IN {m} \cup LargestRows(S \ {m}, n - 1)

\* Vec<T> from a sequence of rows.
MapRecords(rows) == [i \in 1..Len(rows) |-> DatabaseRecord(rows[i])]

-----------------------------------------------------------------------------
(* The parts of the repository that are not among the sources.             *)

\* The stored procedure set_mare_record($1, $2, $3, $4): one atomic
\* check-and-set.  Code 0: the row exists with that modified_at and is
\* rewritten with modified_at set to now; code 1: the row exists with another
\* modified_at; code 2: no row has the id.
set_mare_record(tbl, id, name, breed, modified_at, nowv) ==
    IF ~HasRow(tbl, id) THEN [code |-> 2, tbl |-> tbl]
    ELSE IF RowOf(tbl, id).modified_at # modified_at THEN [code |-> 1, tbl |-> tbl]
    ELSE [code |-> 0,
          tbl |-> (tbl \ {RowOf(tbl, id)}) \cup
                  {[id |-> id, name |-> name, breed |-> breed, modified_at |-> nowv]}]

\* The default of the column mares.id: a fresh identifier of the Identifier
\* Generator, kept by the storage engine.
mares_id_default(gen, nowv, rnd) == GeneratorGenerate(gen, nowv, rnd)

\* Previous page: the rows before the cursor, scanned backward, up to the
\* window size, presented ascending.
get_paged_records_previous(tbl, id) ==
    OrderByIdAsc(LargestRows({r \in tbl : StrLess(r.id, id)}, PageSize))

\* First page: the cursor is ignored.
get_paged_records_first(tbl, id) == Limit(OrderByIdAsc(tbl), PageSize)

-----------------------------------------------------------------------------
(* Database: src/database/mod.rs.  Each method is one statement; it is     *)
(* given the table and returns what it returns and the table it leaves.    *)

\* An insert that binds no breed: the row gets the code 0.
addDefaultBreed(tbl, gen, nowv, rnd, data) ==
    LET d == mares_id_default(gen, nowv, rnd)
        row == [id |-> UlidToString(d.ulid), name |-> data.name,
                breed |-> 0, modified_at |-> nowv]
    IN [ok |-> d.ok,
        id |-> DatabaseRecord(row).id,
        tbl |-> IF d.ok THEN tbl \cup {row} ELSE tbl,
        gen |-> IF d.ok THEN d.ulid ELSE gen]

\* Database::add: "insert into mares (name, breed, modified_at) values ($1,
\* $2, CURRENT_TIMESTAMP) returning ..." and Ok(record.id.0).
add(tbl, gen, nowv, rnd, data) ==
    LET d == mares_id_default(gen, nowv, rnd)
        row == [id |-> UlidToString(d.ulid), name |-> data.name,
                breed |-> BreedToI32(data.breed), modified_at |-> nowv]
    IN [ok |-> d.ok,
        id |-> DatabaseRecord(row).id,
        tbl |-> IF d.ok THEN tbl \cup {row} ELSE tbl,
        gen |-> IF d.ok THEN d.ulid ELSE gen]

\* Database::get: "select ... from mares where id = $1", fetch_optional.
get(tbl, id) == {DatabaseRecord(r) : r \in {q \in tbl : q.id = id}}

\* A set that inserts the row when no row has the id.
setUpsert(tbl, id, data, nowv) ==
    IF HasRow(tbl, id)
    THEN LET s == set_mare_record(tbl, id, data.name, BreedToI32(data.breed),
                                  data.modified_at, nowv)
         IN [code |-> SetStateFromI32(s.code), tbl |-> s.tbl]
    ELSE [code |-> "Success",
          tbl |-> tbl \cup {[id |-> id, name |-> data.name,
                             breed |-> BreedToI32(data.breed), modified_at |-> nowv]}]

\* A set that presents the row's own modified_at, not the form's.
setUnconditional(tbl, id, data, nowv) ==
    LET tok == IF HasRow(tbl, id) THEN RowOf(tbl, id).modified_at ELSE data.modified_at
        s == set_mare_record(tbl, id, data.name, BreedToI32(data.breed), tok, nowv)
    IN [code |-> SetStateFromI32(s.code), tbl |-> s.tbl]

\* Database::set: "select code from set_mare_record($1, $2, $3, $4)" with
\* id, data.name, breed and data.modified_at.
set(tbl, id, data, nowv) ==
    LET s == set_mare_record(tbl, id, data.name, BreedToI32(data.breed),
                             data.modified_at, nowv)
    IN [code |-> SetStateFromI32(s.code), tbl |-> s.tbl]

\* Database::list: "select * from mares"; the order is the engine's.
list(tbl) == MapRecords(OrderByIdAsc(tbl))

\* A query that takes the cursor for a reference to a row: no page when no
\* row has the id.
get_paged_records_nextResolved(tbl, offset) ==
    IF HasRow(tbl, offset)
    THEN Limit(OrderByIdAsc({r \in tbl : StrLess(offset, r.id)}), PageSize)
    ELSE <<>>

\* The query with "id >= $1".
get_paged_records_nextInclusive(tbl, offset) ==
    Limit(OrderByIdAsc({r \in tbl : r.id = offset \/ StrLess(offset, r.id)}), PageSize)

\* Database::get_paged_records as database/mod.rs has it: "select * from
\* mares where id > $1 order by id asc limit 5".
get_paged_records_next(tbl, offset) ==
    Limit(OrderByIdAsc({r \in tbl : StrLess(offset, r.id)}), PageSize)

PagingState == {"Next", "Previous", "First"}

\* Database::get_paged_records as app/mod.rs calls it, with a PagingState.
get_paged_records(tbl, id, state) ==
    MapRecords(CASE state = "Next" -> get_paged_records_next(tbl, id)
                 [] state = "Previous" -> get_paged_records_previous(tbl, id)
                 [] state = "First" -> get_paged_records_first(tbl, id))

\* A statement that returns the row and leaves it in the table.
removeKeepsRow(tbl, id) ==
    [rec |-> {DatabaseRecord(r) : r \in {q \in tbl : q.id = id}},
     tbl |-> tbl]

\* Database::remove: "delete from mares where id = $1 returning ...".
remove(tbl, id) ==
    [rec |-> {DatabaseRecord(r) : r \in {q \in tbl : q.id = id}},
     tbl |-> {q \in tbl : q.id # id}]

\* Database::add_user: "insert into users (id, name) values ($1, $2)
\* returning ..." with the id generated before; users.id is the key.
add_user_insert(tbl, id, name) ==
    IF HasRow(tbl, id) THEN [ok |-> FALSE, tbl |-> tbl]
    ELSE [ok |-> TRUE, tbl |-> tbl \cup {[id |-> id, name |-> name]}]

\* The update query of update_to_ulid, had it been executed.
update_to_ulid_queryExecuted(tbl, ulid, id) ==
    {IF r.id = id THEN [r EXCEPT !.id = ulid] ELSE r : r \in tbl}

\* Database::update_to_ulid, one turn of its loop: the query "update mares
\* set id = $1 where id = $2" is built and dropped, never executed.
update_to_ulid_query(tbl, ulid, id) == tbl

-----------------------------------------------------------------------------
(* Inputs.  Handlers receive untrusted values; these are the ones drawn.   *)

\* A name of 101 characters.
LongName == "LLLLLLLLLLLLLLLLLLLLLLLLLLLLLLLLLLLLLLLLLLLLLLLLLLLLLLLLLLLLLLLLLLLLLLLLLLLLLLLLLLLLLLLLLLLLLLLLLLLLL"

\* AddPonyForm values posted to /mares.
AddForms ==
    {[name |-> "Twilight", breed |-> "Unicorn"],
     [name |-> "", breed |-> "Earth"],
     [name |-> LongName, breed |-> "Pegasus"]}

\* The name and breed of the EditPonyForm values posted to /mares/:id/edit.
EditForms ==
    {[name |-> "Twilight Sparkle", breed |-> "Unicorn"],
     [name |-> "X", breed |-> "Earth"]}

\* Names given to add_user.
UserNames == {"Applejack"}

\* An id no generator returns: the clock starts at 1.
MissingId == UlidToString(NilUlid)

NoTask == "none"

NoReq ==
    [op |-> "none", id |-> <<>>, name |-> "", breed |-> "Earth", modified_at |-> 0,
     todo |-> <<>>, ulid |-> NilUlid, started |-> 0, ticket |-> 0, called |-> 0,
     there |-> FALSE]

NoResp ==
    [op |-> "none", id |-> <<>>, modified_at |-> 0, status |-> "none",
     code |-> "none", rec |-> {}, ulid |-> NilUlid, there |-> FALSE]

NoRace == [id |-> <<>>, modified_at |-> 0, waiting |-> {}, results |-> <<>>]

NoShown == [id |-> <<>>, state |-> "none", ponies |-> <<>>, first_id |-> {}, last_id |-> {}]

NoRemembered == [id |-> <<>>, state |-> "none", ponies |-> <<>>, others |-> FALSE]

\* The response to the call req[t] of task t.  history: there, whether the
\* table had a row with the id when the call was made.
Response(t, status, code, rec, ulid) ==
    [op |-> req[t].op, id |-> req[t].id, modified_at |-> req[t].modified_at,
     status |-> status, code |-> code, rec |-> rec, ulid |-> ulid,
     there |-> req[t].there]

\* The ids of the rows add has returned, as text.
CreatedIds == {UlidToString(created[i]) : i \in 1..Len(created)}

RECURSIVE SumOver(_, _)
SumOver(F(_), S) ==
    IF S = {} THEN 0
    ELSE LET x == CHOOSE y \in S : TRUE IN F(x) + SumOver(F, S \ {x})

\* Calls of generate a task has yet to start or has not yet been given the
\* Mutex for.
GenReserved(t) ==
    CASE pc[t] = "pending" /\ req[t].op = "update_to_ulid" -> MaxCreates
      [] pc[t] = "lock" ->
            IF req[t].op = "update_to_ulid" THEN Len(req[t].todo) ELSE 1
      [] pc[t] \in {"locked", "yield"} ->
            IF req[t].op = "update_to_ulid" THEN Len(req[t].todo) - 1 ELSE 0
      [] OTHER -> 0

GenBudget == MaxCalls - tickets - SumOver(GenReserved, Tasks)

\* Rows add has been asked for and not yet inserted.
AddsInFlight == Cardinality({t \in Tasks : pc[t] = "pending" /\ req[t].op = "add"})

\* history: a call of edit_mare that finds another one in flight for the
\* same row with the same modified_at, the row's current one, starts a race;
\* every other call ends the one recorded.
RaceAtCall(t, id, modified_at) ==
    IF /\ HasRow(mares, id)
       /\ RowOf(mares, id).modified_at = modified_at
       /\ \E u \in Tasks \ {t} :
             /\ pc[u] = "pending" /\ req[u].op = "set"
             /\ req[u].id = id /\ req[u].modified_at = modified_at
    THEN [id |-> id, modified_at |-> modified_at,
          waiting |-> {t} \cup {u \in Tasks : pc[u] = "pending" /\ req[u].op = "set"
                                               /\ req[u].id = id
                                               /\ req[u].modified_at = modified_at},
          results |-> <<>>]
    ELSE NoRace

-----------------------------------------------------------------------------
(* Init and the clock.                                                     *)

Init ==
    /\ now = 1
    /\ mares = {}
    /\ mares_id_gen = NilUlid
    /\ users = {}
    /\ ulid_gen = NilUlid
    /\ mutex = NoTask
    /\ pc = [t \in Tasks |-> "idle"]
    /\ req = [t \in Tasks |-> NoReq]
    /\ resp = NoResp
    /\ created = <<>>
    /\ race = NoRace
    /\ glog = <<>>
    /\ tickets = 0
    /\ shown = NoShown
    /\ walk = <<>>
    /\ remembered = NoRemembered

\* The clock advances at its own pace: two statements may read the same tick.
Tick ==
    /\ now < MaxTime
    /\ now' = now + 1
    /\ resp' = NoResp
    /\ UNCHANGED <<mares, mares_id_gen, users, ulid_gen, mutex, pc, req, created, race, glog, tickets, shown, walk, remembered>>

-----------------------------------------------------------------------------
(* Handlers of src/app/mod.rs.  A handler's call fixes its arguments; its  *)
(* statement runs at the storage engine in a later step.                   *)

\* post_mares: the length check, then pool.add(&form) is sent.
PostMaresCall(t, form) ==
    /\ pc[t] = "idle"
    /\ IF Len(form.name) > MaxNameLen
       THEN /\ resp' = [NoResp EXCEPT !.op = "add", !.status = "err",
                                      !.code = "BAD_REQUEST"]
            /\ UNCHANGED <<pc, req>>
       ELSE /\ pc' = [pc EXCEPT ![t] = "pending"]
            /\ req' = [req EXCEPT ![t] = [NoReq EXCEPT !.op = "add", !.name = form.name,
                                                       !.breed = form.breed,
                                                       !.called = now]]
            /\ resp' = NoResp
    /\ race' = NoRace
    /\ UNCHANGED <<now, mares, mares_id_gen, users, ulid_gen, mutex, created,
                   glog, tickets, shown, walk, remembered>>

\* post_mares: the insert of Database::add runs and the handler redirects.
PostMaresExec(t) ==
    /\ pc[t] = "pending" /\ req[t].op = "add"
    /\ \E rnd \in 0..MaxRand :
          LET a == add(mares, mares_id_gen, now, rnd,
                       [name |-> req[t].name, breed |-> req[t].breed])
          IN /\ a.ok
             /\ mares' = a.tbl
             /\ mares_id_gen' = a.gen
             /\ created' = Append(created, a.id)
             /\ resp' = Response(t, "ok", "Redirect", {}, a.id)
    /\ pc' = [pc EXCEPT ![t] = "idle"]
    /\ req' = [req EXCEPT ![t] = NoReq]
    /\ UNCHANGED <<now, users, ulid_gen, mutex, race, glog, tickets, shown, walk, remembered>>

\* get_mare: pool.get(&id) is sent.
GetMareCall(t, id) ==
    /\ pc[t] = "idle"
    /\ pc' = [pc EXCEPT ![t] = "pending"]
    /\ req' = [req EXCEPT ![t] = [NoReq EXCEPT !.op = "get", !.id = id,
                                               !.there = HasRow(mares, id)]]
    /\ race' = NoRace
    /\ resp' = NoResp
    /\ UNCHANGED <<now, mares, mares_id_gen, users, ulid_gen, mutex, created,
                   glog, tickets, shown, walk, remembered>>

\* get_mare: the select runs; the page, or 404 when there is no record.
GetMareExec(t) ==
    /\ pc[t] = "pending" /\ req[t].op = "get"
    /\ LET r == get(mares, req[t].id)
       IN resp' = IF r = {} THEN Response(t, "err", "NOT_FOUND", r, NilUlid)
                  ELSE Response(t, "ok", "Page", r, NilUlid)
    /\ pc' = [pc EXCEPT ![t] = "idle"]
    /\ req' = [req EXCEPT ![t] = NoReq]
    /\ UNCHANGED <<now, mares, mares_id_gen, users, ulid_gen, mutex, created,
                   race, glog, tickets, shown, walk, remembered>>

\* edit_mare: pool.set(&id, &pony_data) is sent.
EditMareCall(t, id, form, modified_at) ==
    /\ pc[t] = "idle"
    /\ pc' = [pc EXCEPT ![t] = "pending"]
    /\ req' = [req EXCEPT ![t] = [NoReq EXCEPT !.op = "set", !.id = id,
                                               !.name = form.name, !.breed = form.breed,
                                               !.modified_at = modified_at,
                                               !.there = HasRow(mares, id)]]
    /\ race' = RaceAtCall(t, id, modified_at)
    /\ resp' = NoResp
    /\ UNCHANGED <<now, mares, mares_id_gen, users, ulid_gen, mutex, created,
                   glog, tickets, shown, walk, remembered>>

\* edit_mare: the statement of Database::set runs; Success redirects, the
\* other two states answer 409.
EditMareExec(t) ==
    /\ pc[t] = "pending" /\ req[t].op = "set"
    /\ LET s == set(mares, req[t].id,
                    [name |-> req[t].name, breed |-> req[t].breed,
                     modified_at |-> req[t].modified_at], now)
       IN /\ mares' = s.tbl
          /\ resp' = Response(t, IF s.code = "Success" THEN "ok" ELSE "err",
                              s.code, {}, NilUlid)
          /\ race' = IF t \in race.waiting
                     THEN [race EXCEPT !.waiting = @ \ {t},
                                       !.results = Append(@, [code |-> s.code, name |-> req[t].name,
                                                              breed |-> req[t].breed])]
                     ELSE race
    /\ pc' = [pc EXCEPT ![t] = "idle"]
    /\ req' = [req EXCEPT ![t] = NoReq]
    /\ UNCHANGED <<now, mares_id_gen, users, ulid_gen, mutex, created, glog,
                   tickets, shown, walk, remembered>>

\* delete_mare: pool.remove(&id) is sent.
DeleteMareCall(t, id) ==
    /\ pc[t] = "idle"
    /\ pc' = [pc EXCEPT ![t] = "pending"]
    /\ req' = [req EXCEPT ![t] = [NoReq EXCEPT !.op = "remove", !.id = id]]
    /\ race' = NoRace
    /\ resp' = NoResp
    /\ UNCHANGED <<now, mares, mares_id_gen, users, ulid_gen, mutex, created,
                   glog, tickets, shown, walk, remembered>>

\* delete_mare: the delete runs; a redirect, or 404 when there was no record.
DeleteMareExec(t) ==
    /\ pc[t] = "pending" /\ req[t].op = "remove"
    /\ LET r == remove(mares, req[t].id)
       IN /\ mares' = r.tbl
          /\ resp' = IF r.rec = {} THEN Response(t, "err", "NOT_FOUND", r.rec, NilUlid)
                     ELSE Response(t, "ok", "Redirect", r.rec, NilUlid)
    /\ pc' = [pc EXCEPT ![t] = "idle"]
    /\ req' = [req EXCEPT ![t] = NoReq]
    /\ UNCHANGED <<now, mares_id_gen, users, ulid_gen, mutex, created, race,
                   glog, tickets, shown, walk, remembered>>

\* The "?" after a statement's fetch: the storage engine fails the statement,
\* nothing is written, and the handler answers with the error at once.
StorageError(t) ==
    /\ pc[t] = "pending"
    /\ req[t].op \in {"add", "get", "set", "remove"}
    /\ resp' = Response(t, "err", "sqlx::Error", {}, NilUlid)
    /\ pc' = [pc EXCEPT ![t] = "idle"]
    /\ req' = [req EXCEPT ![t] = NoReq]
    /\ UNCHANGED <<now, mares, mares_id_gen, users, ulid_gen, mutex, created,
                   race, glog, tickets, shown, walk, remembered>>

-----------------------------------------------------------------------------
(* DbUlidGen::generate (src/utils/ulid.rs) and its two callers,            *)
(* Database::add_user and Database::update_to_ulid.                        *)

\* A lock that is granted whoever holds it.
MutexLockNoExclusion(owner, t) == TRUE

\* self.0.lock(): granted when no task holds the Mutex.
MutexLock(owner, t) == owner = NoTask

\* Database::add_user is called: self.ulid_gen.generate() comes first.
AddUserCall(t, name) ==
    /\ pc[t] = "idle"
    /\ GenBudget >= 1
    /\ pc' = [pc EXCEPT ![t] = "lock"]
    /\ req' = [req EXCEPT ![t] = [NoReq EXCEPT !.op = "add_user", !.name = name,
                                               !.started = Len(glog)]]
    /\ race' = NoRace
    /\ resp' = NoResp
    /\ UNCHANGED <<now, mares, mares_id_gen, users, ulid_gen, mutex, created,
                   glog, tickets, shown, walk, remembered>>

\* Database::update_to_ulid is called: "select * from mares" is sent.
UpdateToUlidCall(t) ==
    /\ pc[t] = "idle"
    /\ GenBudget >= MaxCreates
    /\ pc' = [pc EXCEPT ![t] = "pending"]
    /\ req' = [req EXCEPT ![t] = [NoReq EXCEPT !.op = "update_to_ulid"]]
    /\ race' = NoRace
    /\ resp' = NoResp
    /\ UNCHANGED <<now, mares, mares_id_gen, users, ulid_gen, mutex, created,
                   glog, tickets, shown, walk, remembered>>

\* Database::update_to_ulid: the select runs; the loop over its records
\* starts, or Ok(()) at once when there are none.
UpdateToUlidSelect(t) ==
    /\ pc[t] = "pending" /\ req[t].op = "update_to_ulid"
    /\ LET records == list(mares)
       IN IF records = <<>>
          THEN /\ pc' = [pc EXCEPT ![t] = "idle"]
               /\ resp' = Response(t, "ok", "Ok", {}, NilUlid)
               /\ req' = [req EXCEPT ![t] = NoReq]
          ELSE /\ pc' = [pc EXCEPT ![t] = "lock"]
               /\ req' = [req EXCEPT ![t].todo = records, ![t].started = Len(glog)]
               /\ resp' = NoResp
    /\ UNCHANGED <<now, mares, mares_id_gen, users, ulid_gen, mutex, created, race,
                   glog, tickets, shown, walk, remembered>>

\* DbUlidGen::generate: the Mutex is taken.
DbUlidGenLock(t) ==
    /\ pc[t] = "lock"
    /\ MutexLock(mutex, t)
    /\ mutex' = t
    /\ tickets' = tickets + 1
    /\ pc' = [pc EXCEPT ![t] = "locked"]
    /\ req' = [req EXCEPT ![t].ticket = tickets + 1]
    /\ resp' = NoResp
    /\ UNCHANGED <<now, mares, mares_id_gen, users, ulid_gen, created, race,
                   glog, shown, walk, remembered>>

\* DbUlidGen::generate, one turn of its loop: generator.generate() under the
\* Mutex.  Ok returns the ULID and drops the guard: add_user sends its insert,
\* update_to_ulid builds its query and goes on to its next record or returns.
\* Err goes to yield_now().
DbUlidGenGenerate(t) ==
    /\ pc[t] = "locked"
    /\ \E rnd \in 0..MaxRand :
          LET g == GeneratorGenerate(ulid_gen, now, rnd)
              rest == Tail(req[t].todo)
          IN IF ~g.ok
             THEN /\ pc' = [pc EXCEPT ![t] = "yield"]
                  /\ resp' = NoResp
                  /\ UNCHANGED <<mares, ulid_gen, mutex, req, glog>>
             ELSE /\ ulid_gen' = g.ulid
                  /\ mutex' = NoTask
                  /\ glog' = Append(glog, [ulid |-> g.ulid,
                                           started |-> req[t].started,
                                           ticket |-> req[t].ticket])
                  /\ IF req[t].op = "add_user"
                     THEN /\ pc' = [pc EXCEPT ![t] = "pending"]
                          /\ req' = [req EXCEPT ![t].ulid = g.ulid,
                                                ![t].id = UlidToString(g.ulid)]
                          /\ resp' = NoResp
                          /\ UNCHANGED mares
                     ELSE /\ mares' = update_to_ulid_query(mares, UlidToString(g.ulid),
                                                           UlidToString(req[t].todo[1].id))
                          /\ IF rest = <<>>
                             THEN /\ pc' = [pc EXCEPT ![t] = "idle"]
                                  /\ resp' = Response(t, "ok", "Ok", {}, NilUlid)
                                  /\ req' = [req EXCEPT ![t] = NoReq]
                             ELSE /\ pc' = [pc EXCEPT ![t] = "lock"]
                                  /\ req' = [req EXCEPT ![t].todo = rest,
                                                        ![t].started = Len(glog) + 1]
                                  /\ resp' = NoResp
    /\ UNCHANGED <<now, mares_id_gen, users, created, race, tickets, shown, walk, remembered>>

\* DbUlidGen::generate: std::thread::yield_now(); continue.
DbUlidGenYield(t) ==
    /\ pc[t] = "yield"
    /\ pc' = [pc EXCEPT ![t] = "locked"]
    /\ resp' = NoResp
    /\ UNCHANGED <<now, mares, mares_id_gen, users, ulid_gen, mutex, req, created, race, glog, tickets, shown, walk, remembered>>

\* Database::add_user: the insert runs and Ok(record.id.0).
AddUserExec(t) ==
    /\ pc[t] = "pending" /\ req[t].op = "add_user"
    /\ LET a == add_user_insert(users, req[t].id, req[t].name)
       IN /\ users' = a.tbl
          /\ resp' = IF a.ok
                     THEN Response(t, "ok", "Ok", {}, UlidFromString(req[t].id))
                     ELSE Response(t, "err", "Err", {}, NilUlid)
    /\ pc' = [pc EXCEPT ![t] = "idle"]
    /\ req' = [req EXCEPT ![t] = NoReq]
    /\ UNCHANGED <<now, mares, mares_id_gen, ulid_gen, mutex, created, race,
                   glog, tickets, shown, walk, remembered>>

-----------------------------------------------------------------------------
(* Pagination: get_paged_mare_table (src/app/mod.rs).                      *)

\* The ULIDs the paged record sets are drawn from.
PageUlids ==
    {[ts |-> ts, rand |-> rand] :
        ts \in 1..(MaxPageIds \div (MaxRand + 1)), rand \in 0..MaxRand}

\* The cursors drawn: every such id, present or not, and the empty text.
PageCursors == {UlidToString(u) : u \in PageUlids} \cup {<<>>}

\* A handler over a store that keeps the cursor between calls: after a page
\* was rendered, the next page is taken from that page's last id.
get_paged_mare_tableServerCursor(tbl, id, state) ==
    LET cursor == IF shown.last_id = {} THEN id ELSE CHOOSE c \in shown.last_id : TRUE
        mare_records == get_paged_records(tbl, cursor, state)
    IN [id |-> id, state |-> state, ponies |-> mare_records,
        first_id |-> IF mare_records = <<>> THEN {}
                     ELSE {UlidToString(mare_records[1].id)},
        last_id |-> IF mare_records = <<>> THEN {}
                    ELSE {UlidToString(mare_records[Len(mare_records)].id)}]

\* A handler that drops the state of the URL and pages forward.
get_paged_mare_tableNextOnly(tbl, id, state) ==
    LET mare_records == get_paged_records(tbl, id, "Next")
    IN [id |-> id, state |-> state, ponies |-> mare_records,
        first_id |-> IF mare_records = <<>> THEN {}
                     ELSE {UlidToString(mare_records[1].id)},
        last_id |-> IF mare_records = <<>> THEN {}
                    ELSE {UlidToString(mare_records[Len(mare_records)].id)}]

\* get_paged_mare_table: the page of records and the ids of its first and
\* last record, for the links of the rendered page.
get_paged_mare_table(tbl, id, state) ==
    LET mare_records == get_paged_records(tbl, id, state)
    IN [id |-> id, state |-> state, ponies |-> mare_records,
        first_id |-> IF mare_records = <<>> THEN {}
                     ELSE {UlidToString(mare_records[1].id)},
        last_id |-> IF mare_records = <<>> THEN {}
                    ELSE {UlidToString(mare_records[Len(mare_records)].id)}]

\* A record set of the paged listing is any set of rows with distinct ids.
InitPage ==
    /\ now = MaxTime
    /\ mares \in {{[id |-> UlidToString(u), name |-> "Twilight", breed |-> 2,
                    modified_at |-> 1] : u \in S} : S \in SUBSET PageUlids}
    /\ mares_id_gen = NilUlid
    /\ users = {}
    /\ ulid_gen = NilUlid
    /\ mutex = NoTask
    /\ pc = [t \in Tasks |-> "idle"]
    /\ req = [t \in Tasks |-> NoReq]
    /\ resp = NoResp
    /\ created = <<>>
    /\ race = NoRace
    /\ glog = <<>>
    /\ tickets = 0
    /\ shown = NoShown
    /\ walk = <<>>
    /\ remembered = NoRemembered

\* GET /mares/page/:page/:state/:id as a session opens it: any cursor and
\* any state.  A First page starts a walk.
PageUrl(id, state) ==
    /\ shown = NoShown
    /\ shown' = get_paged_mare_table(mares, id, state)
    /\ walk' = IF state = "First" THEN <<shown'.ponies>> ELSE <<>>
    /\ resp' = NoResp
    /\ UNCHANGED <<now, mares, mares_id_gen, users, ulid_gen, mutex, pc, req,
                   created, race, glog, tickets, remembered>>

\* The Next link of the page shown: the cursor is its last_id.  It continues
\* the walk while every page so far was full.
PageNextLink ==
    /\ shown.last_id # {}
    /\ \E id \in shown.last_id :
          shown' = get_paged_mare_table(mares, id, "Next")
    /\ walk' = IF walk # <<>> /\ walk[Len(walk)] = shown.ponies
                  /\ Len(shown.ponies) = PageSize
               THEN Append(walk, shown'.ponies)
               ELSE <<>>
    /\ resp' = NoResp
    /\ UNCHANGED <<now, mares, mares_id_gen, users, ulid_gen, mutex, pc, req, created,
                   race, glog, tickets, remembered>>

\* The Previous link of the page shown: the cursor is its first_id.
PagePreviousLink ==
    /\ shown.first_id # {}
    /\ \E id \in shown.first_id :
          shown' = get_paged_mare_table(mares, id, "Previous")
    /\ walk' = <<>>
    /\ resp' = NoResp
    /\ UNCHANGED <<now, mares, mares_id_gen, users, ulid_gen, mutex, pc, req, created,
                   race, glog, tickets, remembered>>

-----------------------------------------------------------------------------
(* The reads: get_mare, get_mare_table and get_paged_mare_table as any      *)
(* client calls them, in any order.                                        *)

\* The ULIDs the record sets of SpecRead are drawn from: the MaxReadIds
\* smallest of PageUlids.
ReadUlids ==
    {u \in PageUlids : Cardinality({v \in PageUlids : UlidLess(v, u)}) < MaxReadIds}

\* The cursors drawn: every such id, present or not, and the empty text.
ReadCursors == {UlidToString(u) : u \in ReadUlids} \cup {<<>>}

\* A record set that the reads find: the rows of all these ids, or of all
\* but one of them.
InitRead ==
    /\ now = MaxTime
    /\ mares \in {{[id |-> UlidToString(u), name |-> "Twilight", breed |-> 2,
                    modified_at |-> 1] : u \in S} :
                     S \in {ReadUlids} \cup {ReadUlids \ {u} : u \in ReadUlids}}
    /\ mares_id_gen = NilUlid
    /\ users = {}
    /\ ulid_gen = NilUlid
    /\ mutex = NoTask
    /\ pc = [t \in Tasks |-> "idle"]
    /\ req = [t \in Tasks |-> NoReq]
    /\ resp = NoResp
    /\ created = <<>>
    /\ race = NoRace
    /\ glog = <<>>
    /\ tickets = 0
    /\ shown = NoShown
    /\ walk = <<>>
    /\ remembered = NoRemembered

\* GET /mares/page/:page/:state/:id with any cursor and any state, whatever
\* was asked for before.  history: the call is remembered (keep) when none is
\* yet, and a call with other arguments than the remembered one is noted.
ReadPage(id, state, keep) ==
    /\ keep => remembered = NoRemembered
    /\ shown' = get_paged_mare_table(mares, id, state)
    /\ remembered' =
          IF keep
          THEN [id |-> id, state |-> state, ponies |-> shown'.ponies, others |-> FALSE]
          ELSE IF remembered # NoRemembered
                  /\ (id # remembered.id \/ state # remembered.state)
               THEN [remembered EXCEPT !.others = TRUE]
               ELSE remembered
    /\ walk' = <<>>
    /\ resp' = NoResp
    /\ UNCHANGED <<now, mares, mares_id_gen, users, ulid_gen, mutex, pc, req,
                   created, race, glog, tickets>>

\* get_mare_table: pool.list() and the table of all records.
GetMareTable(t) ==
    /\ pc[t] = "idle"
    /\ LET mare_records == list(mares)
       IN resp' = [NoResp EXCEPT !.op = "list", !.status = "ok", !.code = "Page",
                                 !.rec = {mare_records[i] : i \in 1..Len(mare_records)}]
    /\ UNCHANGED <<now, mares, mares_id_gen, users, ulid_gen, mutex, pc, req,
                   created, race, glog, tickets, shown, walk, remembered>>

-----------------------------------------------------------------------------
(* Specifications.                                                         *)

\* The ids handlers are called with: those add has returned, and a missing one.
IdInputs == CreatedIds \cup {MissingId}

\* The record store: the handlers that write mares.
Next ==
    \/ Tick
    \/ \E t \in Tasks, form \in AddForms :
          Len(created) + AddsInFlight < MaxMares /\ PostMaresCall(t, form)
    \/ \E t \in Tasks : PostMaresExec(t)
    \/ \E t \in Tasks, id \in IdInputs : GetMareCall(t, id)
    \/ \E t \in Tasks : GetMareExec(t)
    \/ \E t \in Tasks, id \in IdInputs, form \in EditForms, m \in 1..now :
          EditMareCall(t, id, form, m)
    \/ \E t \in Tasks : EditMareExec(t)
    \/ \E t \in Tasks, id \in IdInputs : DeleteMareCall(t, id)
    \/ \E t \in Tasks : DeleteMareExec(t)
    \/ \E t \in Tasks : StorageError(t)

Spec == Init /\ [][Next]_vars

\* The identifier generator under its callers.
NextGen ==
    \/ Tick
    \/ \E t \in Tasks, name \in UserNames : AddUserCall(t, name)
    \/ \E t \in Tasks : DbUlidGenLock(t)
    \/ \E t \in Tasks : DbUlidGenGenerate(t)
    \/ \E t \in Tasks : DbUlidGenYield(t)
    \/ \E t \in Tasks : AddUserExec(t)

SpecGen == Init /\ [][NextGen]_vars

\* The clock of an unbounded run: past MaxTime it advances while a call of
\* generate finds the generator exhausted for the tick.  Each of the MaxCalls
\* calls needs one such tick at most.
TickAdvancing ==
    /\ now < MaxTime + MaxCalls
    /\ \/ now < MaxTime
       \/ \E t \in Tasks :
             /\ pc[t] \in {"locked", "yield"}
             /\ ~GeneratorGenerate(ulid_gen, now, 0).ok
    /\ now' = now + 1
    /\ resp' = NoResp
    /\ UNCHANGED <<mares, mares_id_gen, users, ulid_gen, mutex, pc, req, created,
                   race, glog, tickets, shown, walk, remembered>>

\* The identifier generator under its callers, with an advancing clock.
NextGenLive ==
    \/ TickAdvancing
    \/ \E t \in Tasks, name \in UserNames : AddUserCall(t, name)
    \/ \E t \in Tasks : DbUlidGenLock(t)
    \/ \E t \in Tasks : DbUlidGenGenerate(t)
    \/ \E t \in Tasks : DbUlidGenYield(t)
    \/ \E t \in Tasks : AddUserExec(t)

\* Fair scheduling: a task that can take a step of generate takes one; the
\* clock advances.
SpecGenLive ==
    /\ Init /\ [][NextGenLive]_vars
    /\ WF_vars(TickAdvancing)
    /\ \A t \in Tasks :
          /\ WF_vars(DbUlidGenLock(t))
          /\ WF_vars(DbUlidGenGenerate(t))
          /\ WF_vars(DbUlidGenYield(t))

\* In SpecIds one task runs update_to_ulid and the other one edits; both
\* create and delete.
MaintenanceTask == "t1"

EditTask == "t2"

\* The identifiers of the rows of mares under every operation that creates,
\* rewrites or removes rows, each with one input.
NextIds ==
    \/ Tick
    \/ \E t \in Tasks :
          /\ Len(created) + AddsInFlight < MaxCreates
          /\ PostMaresCall(t, [name |-> "Twilight", breed |-> "Unicorn"])
    \/ \E t \in Tasks : PostMaresExec(t)
    \/ \E id \in CreatedIds :
          EditMareCall(EditTask, id, [name |-> "X", breed |-> "Earth"], now)
    \/ \E t \in Tasks : EditMareExec(t)
    \/ \E t \in Tasks, id \in CreatedIds : DeleteMareCall(t, id)
    \/ \E t \in Tasks : DeleteMareExec(t)
    \/ UpdateToUlidCall(MaintenanceTask)
    \/ \E t \in Tasks : UpdateToUlidSelect(t)
    \/ \E t \in Tasks : DbUlidGenLock(t)
    \/ \E t \in Tasks : DbUlidGenGenerate(t)
    \/ \E t \in Tasks : DbUlidGenYield(t)

SpecIds == Init /\ [][NextIds]_vars

\* In SpecRead one task reads single records and lists.
ReadTask == "t1"

\* The reads over a record set that does not change.
NextRead ==
    \/ \E id \in ReadCursors, state \in PagingState, keep \in BOOLEAN :
          ReadPage(id, state, keep)
    \/ \E id \in {MinRow(mares).id, MissingId} : GetMareCall(ReadTask, id)
    \/ GetMareExec(ReadTask)
    \/ GetMareTable(ReadTask)

SpecRead == InitRead /\ [][NextRead]_vars

\* The paged listing of a record set that does not change.
NextPage ==
    \/ \E id \in PageCursors, state \in PagingState : PageUrl(id, state)
    \/ PageNextLink
    \/ PagePreviousLink

SpecPage == InitPage /\ [][NextPage]_vars

-----------------------------------------------------------------------------
(* Claims about the optimistic-concurrency update, under Spec.             *)

\* The step in which the statement of task t's edit_mare runs.
SetStep(t) ==
    /\ pc[t] = "pending" /\ req[t].op = "set" /\ pc'[t] = "idle"
    /\ resp'.code # "sqlx::Error"

\* C1: two edit_mare calls in flight together for the same existing record,
\* both with the record's current modified_at, end with exactly one Success
\* and one ModifiedAtConflict, and the record then holds the name and the
\* breed of the one that succeeded.
C1_NoLostUpdate ==
    (race # NoRace /\ race.waiting = {}) =>
        /\ Len(race.results) = 2
        /\ \E i \in 1..2 :
              /\ race.results[i].code = "Success"
              /\ race.results[3 - i].code = "ModifiedAtConflict"
              /\ HasRow(mares, race.id)
              /\ RowOf(mares, race.id).name = race.results[i].name
              /\ RowOf(mares, race.id).breed = BreedToI32(race.results[i].breed)

\* C2: an edit of an existing record whose modified_at is not the one the
\* form carries returns ModifiedAtConflict and leaves the table, and so what
\* get returns for the record, as it was.
C2_ConflictLeavesRecordUntouched ==
    [][\A t \in Tasks :
          (/\ SetStep(t)
           /\ HasRow(mares, req[t].id)
           /\ RowOf(mares, req[t].id).modified_at # req[t].modified_at)
          => /\ resp'.code = "ModifiedAtConflict"
             /\ mares' = mares
             /\ get(mares', req[t].id) = get(mares, req[t].id)]_vars

\* C2, its case: a rejected edit of a record that is there.
C2_Witness ==
    /\ resp.op = "set" /\ resp.code = "ModifiedAtConflict"
    /\ HasRow(mares, resp.id)
    /\ RowOf(mares, resp.id).modified_at # resp.modified_at

\* C3: an edit of an existing record that carries the record's current
\* modified_at m0 returns Success, stores the new name and breed, and leaves
\* a modified_at strictly greater than m0.
C3_SuccessAdvancesToken ==
    [][\A t \in Tasks :
          (/\ SetStep(t)
           /\ HasRow(mares, req[t].id)
           /\ RowOf(mares, req[t].id).modified_at = req[t].modified_at)
          => /\ resp'.code = "Success"
             /\ HasRow(mares', req[t].id)
             /\ RowOf(mares', req[t].id).name = req[t].name
             /\ RowOf(mares', req[t].id).breed = BreedToI32(req[t].breed)
             /\ RowOf(mares', req[t].id).modified_at > req[t].modified_at]_vars

\* C4: the state an edit returns is decided by the table as its statement
\* finds it: RecordNotFound exactly when no record has the id,
\* ModifiedAtConflict exactly when the record has another modified_at,
\* Success exactly when it has the one the form carries; and only a Success
\* changes the table.
C4_OutcomeDecidedByStore ==
    [][\A t \in Tasks :
          SetStep(t) =>
             LET there == HasRow(mares, req[t].id)
                 same == there /\ RowOf(mares, req[t].id).modified_at = req[t].modified_at
             IN /\ resp'.code \in SetState
                /\ (resp'.code = "RecordNotFound") <=> ~there
                /\ (resp'.code = "ModifiedAtConflict") <=> (there /\ ~same)
                /\ (resp'.code = "Success") <=> same
                /\ (mares' # mares) => resp'.code = "Success"]_vars

\* C4, its case: an edit of an id no record has.
C4_Witness ==
    /\ resp.op = "set" /\ resp.code = "RecordNotFound"
    /\ ~HasRow(mares, resp.id)
    /\ mares # {}

-----------------------------------------------------------------------------
(* Claims about the identifier generator, under SpecGen.                   *)

\* C5: of two calls of generate of which the first returned before the
\* second was made, the second returns the strictly greater ULID.
C5_SequentialIdsIncrease ==
    \A i, j \in 1..Len(glog) :
        i <= glog[j].started => UlidLess(glog[i].ulid, glog[j].ulid)

\* C5, its case: two such calls in the same tick.
C5_Witness ==
    \E i, j \in 1..Len(glog) :
        /\ i <= glog[j].started
        /\ glog[i].ulid.ts = glog[j].ulid.ts

\* C6: at most one task is inside generate's locked section, and the ULIDs
\* returned are pairwise distinct and increase in the order in which the
\* tasks took the Mutex.
C6_ConcurrentIdsDistinct ==
    /\ Cardinality({t \in Tasks : pc[t] \in {"locked", "yield"}}) <= 1
    /\ \A i, j \in 1..Len(glog) :
          /\ i # j => glog[i].ulid # glog[j].ulid
          /\ glog[i].ticket < glog[j].ticket => UlidLess(glog[i].ulid, glog[j].ulid)

\* C6, its case: a call that was made before another call returned, both
\* answered.
C6_Witness ==
    \E i, j \in 1..Len(glog) : i < j /\ glog[j].started < i

-----------------------------------------------------------------------------
(* Claim about record ids, under SpecIds.                                  *)

\* The ids of the rows of a table.
RowIds(tbl) == {r.id : r \in tbl}

-----------------------------------------------------------------------------
(* Claims about the paged listing, under SpecPage.                         *)

\* The records of a table as get returns them.
AllRecords(tbl) == {DatabaseRecord(r) : r \in tbl}

IsSmallestAscending(ponies, S) ==
    /\ Len(ponies) = IF Cardinality(S) < PageSize THEN Cardinality(S) ELSE PageSize
    /\ \A i \in 1..Len(ponies) : ponies[i] \in S
    /\ \A i, j \in 1..Len(ponies) : i < j => UlidLess(ponies[i].id, ponies[j].id)
    /\ \A r \in S :
          (\A i \in 1..Len(ponies) : ponies[i] # r)
             => \A i \in 1..Len(ponies) : UlidLess(ponies[i].id, r.id)

C12_CursorIsBoundary ==
    shown.state = "Next" =>
        IsSmallestAscending(shown.ponies,
            {r \in AllRecords(mares) : StrLess(shown.id, UlidToString(r.id))})

\* C12, its case: a Next page at a cursor no record has, with records on
\* both sides of it.
C12_Witness ==
    /\ shown.state = "Next"
    /\ ~HasRow(mares, shown.id)
    /\ shown.ponies # <<>>
    /\ \E r \in mares : StrLess(r.id, shown.id)

-----------------------------------------------------------------------------
(* Claims about create, read and remove, under Spec.                       *)

\* C13: a create with an empty name or with a name of more than 100
\* characters is answered with a validation error and stores no record: no
\* row of mares has such a name, and no add is sent for one.
C13_InvalidNameCreatesNoRecord ==
    /\ \A r \in mares : r.name # "" /\ Len(r.name) <= MaxNameLen
    /\ \A t \in Tasks :
          (pc[t] = "pending" /\ req[t].op = "add")
             => (req[t].name # "" /\ Len(req[t].name) <= MaxNameLen)

\* The step in which the statement of task t's delete_mare runs.
RemoveStep(t) ==
    /\ pc[t] = "pending" /\ req[t].op = "remove" /\ pc'[t] = "idle"
    /\ resp'.code # "sqlx::Error"

\* C14: a remove of an id a record has takes the record away and returns it
\* as it was, in one step, after which get finds nothing under the id; a
\* remove of an id no record has returns nothing and leaves the table as it
\* was; and an id add has returned that get finds nothing under stays so in
\* every later step.
C14_RemoveSemantics ==
    [][/\ \A t \in Tasks :
             RemoveStep(t) =>
                IF HasRow(mares, req[t].id)
                THEN /\ resp'.rec = {DatabaseRecord(RowOf(mares, req[t].id))}
                     /\ resp'.status = "ok"
                     /\ mares' = mares \ {RowOf(mares, req[t].id)}
                     /\ get(mares', req[t].id) = {}
                ELSE /\ resp'.rec = {}
                     /\ mares' = mares
       /\ \A id \in CreatedIds :
             get(mares, id) = {} => get(mares', id) = {}]_vars

\* C14, its case: a record was removed, and a later get of its id has
\* found nothing.
C14_Witness ==
    /\ resp.op = "get" /\ resp.rec = {}
    /\ resp.id \in CreatedIds

\* The step in which the insert of task t's post_mares runs.
AddStep(t) ==
    /\ pc[t] = "pending" /\ req[t].op = "add" /\ pc'[t] = "idle"
    /\ resp'.code # "sqlx::Error"

\* C15: when add returns an id, get of that id returns the record with that
\* id, the name and the breed of the form, and a modified_at that is not
\* before the clock reading at the call; and what get returns for an id add
\* has returned changes only in a step of a set or a remove of that id.
C15_CreateReadRoundTrip ==
    [][/\ \A t \in Tasks :
             AddStep(t) =>
                \E m \in req[t].called..now :
                   get(mares', UlidToString(resp'.ulid)) =
                      {[id |-> resp'.ulid, name |-> req[t].name,
                        breed |-> req[t].breed, modified_at |-> m]}
       /\ \A id \in CreatedIds :
             get(mares', id) # get(mares, id) =>
                \E t \in Tasks : (SetStep(t) \/ RemoveStep(t)) /\ req[t].id = id]_vars

\* C15, its case: a get, in a later clock reading than the create, of a
\* record that was created and not changed since.
C15_Witness ==
    /\ resp.op = "get"
    /\ \E r \in resp.rec :
          /\ r.name = "Twilight" /\ r.breed = "Unicorn"
          /\ r.modified_at < now
          /\ UlidToString(r.id) \in CreatedIds

\* C17: in every step the modified_at of a record that stays in the table
\* does not decrease, and it changes exactly when the step is a set of that
\* record that returns Success.
C17_ModifiedAtChangesOnSuccess ==
    [][\A r \in mares :
          HasRow(mares', r.id) =>
             /\ RowOf(mares', r.id).modified_at >= r.modified_at
             /\ (RowOf(mares', r.id).modified_at # r.modified_at)
                   <=> (\E t \in Tasks : /\ SetStep(t) /\ req[t].id = r.id
                                          /\ resp'.code = "Success")]_vars

\* The step in which the select of task t's get_mare runs.
GetStep(t) ==
    /\ pc[t] = "pending" /\ req[t].op = "get" /\ pc'[t] = "idle"
    /\ resp'.code # "sqlx::Error"

\* C18: a set whose statement runs after a remove of its id has taken the
\* record away returns RecordNotFound and leaves the table as it is, and a
\* get whose select runs then returns nothing.
C18_RemoveWinsRace ==
    [][\A t \in Tasks :
          (req[t].id \in CreatedIds /\ ~HasRow(mares, req[t].id)) =>
             /\ SetStep(t) => (resp'.code = "RecordNotFound" /\ mares' = mares)
             /\ GetStep(t) => (resp'.rec = {} /\ mares' = mares)]_vars

\* C18, its case: a set called while the record was there, answered after
\* a remove took the record away.
C18_Witness ==
    /\ resp.op = "set" /\ resp.there
    /\ resp.code = "RecordNotFound"
    /\ resp.id \in CreatedIds

\* The step that ends task t's call of a handler that writes.
MutationEnds(t) ==
    /\ pc[t] = "pending" /\ req[t].op \in {"add", "set", "remove"}
    /\ pc'[t] = "idle"

C20_BreedCodes ==
    /\ BreedToI32("Earth") = 0 /\ BreedToI32("Pegasus") = 1 /\ BreedToI32("Unicorn") = 2
    /\ \A b \in Breed : BreedFromI32(BreedToI32(b)) = b
    /\ \A r \in mares :
          /\ r.breed \in {0, 1, 2}
          /\ DatabaseRecord(r).breed \in Breed
          /\ BreedToI32(DatabaseRecord(r).breed) = r.breed
    /\ \A r \in resp.rec : r.breed \in Breed

\* C20, its case: get has decoded a record whose breed an update wrote.
C20_Witness ==
    /\ resp.op = "get"
    /\ \E r \in resp.rec : r.name = "X" /\ r.breed = "Earth"

-----------------------------------------------------------------------------
(* Claim about the generator's progress, under SpecGenLive.                *)

\* Task t is inside DbUlidGen::generate.
InGenerate(t) == pc[t] \in {"lock", "locked", "yield"}

\* C16: every call of generate returns, whichever task makes it and whoever
\* else contends for the Mutex, also a call that finds the generator
\* exhausted for the tick and yields.
C16_GenerateReturns ==
    \A t \in Tasks : InGenerate(t) ~> ~InGenerate(t)

\* C16, its case: a call that found the generator exhausted and yielded,
\* holding the Mutex another caller waits for.
C16_Witness ==
    \E t, u \in Tasks : pc[t] = "yield" /\ pc[u] = "lock"

-----------------------------------------------------------------------------
(* Claim about the reads, under SpecRead.                                  *)

\* A step in which get, list or page has answered.
ReadStep ==
    \/ \E t \in Tasks : GetStep(t)
    \/ resp'.op = "list"
    \/ shown' # shown
    \/ remembered' # remembered

\* The page shown is the page of the remembered call when it was asked for
\* with the same cursor and the same state.
SameArgumentsSamePage ==
    (/\ remembered # NoRemembered
     /\ shown.id = remembered.id
     /\ shown.state = remembered.state)
    => shown.ponies = remembered.ponies

====
